---- MODULE Spec2Model ----
(***************************************************************************)
(* Model of globus_sdk: TransferClient.task_wait, the paginated list       *)
(* methods of TransferClient, and ClientCredentialsAuthorizer on top of    *)
(* the renewing authorizer.                                                *)
(***************************************************************************)
EXTENDS Integers, Sequences, FiniteSets

\* ------------------------------------------------------------------------
\* Bounds of the model
\* ------------------------------------------------------------------------

\* largest timeout argument given to task_wait (arguments range over 0..MaxTimeout)
MaxTimeout == 6

\* largest polling_interval argument given to task_wait (0..MaxInterval)
MaxInterval == 10

\* number of concurrent callers of one authorizer
NThreads == 2

\* the clock stops advancing at MaxTime
MaxTime == 3

\* a call of get_authorization_header starts only while the hook calls made,
\* plus one for every call that has not taken its turn yet, stay below MaxFetches
MaxFetches == 2

\* ------------------------------------------------------------------------
\* State
\* ------------------------------------------------------------------------

VARIABLES
    \* --- TransferClient.task_wait ---
    pc,                \* position of the task_wait call
    timeout,           \* the timeout argument
    interval_arg,      \* the polling_interval argument as passed by the caller
    polling_interval,  \* the local polling_interval after the clamp (line 1095)
    waited_time,       \* the local waited_time
    result,            \* what the call returned or raised
    statuses,          \* the statuses the get_task calls returned, in order
    checks,            \* number of get_task requests issued
    sleeps,            \* number of time.sleep calls
    slept,             \* total seconds passed to time.sleep
    events,            \* the loop's steps, in order
    \* --- ClientCredentialsAuthorizer (a RenewingAuthorizer) ---
    now,               \* the clock (time.time())
    access_token,      \* the authorizer's current token (None: absent)
    expires_at,        \* the authorizer's expiry of that token (None: absent)
    scopes,            \* number of resource servers the scopes string spans
    on_refresh,        \* whether an on_refresh callback was given
    lock,              \* the callers holding the renewal lock (at most one)
    apc,               \* position of each caller of get_authorization_header
    err,               \* the error each caller's call raised
    header,            \* what each caller's call returned, and when it ended
    h0,                \* hook calls started before each caller's call began
    state_at_call,     \* the authorizer's state when each caller's call began
    call_grants,       \* grant requests issued by each caller's hook call
    got_other,         \* whether the caller's grant response held other tokens
    hook_calls,        \* calls of _get_token_response started so far
    grant_requests,    \* oauth2_client_credentials_tokens requests so far
    refresh_calls,     \* calls of the on_refresh callback so far
    fetch_log,         \* the outcome and time of every hook call, in order
    refresh_log,       \* the TokenResponse of every on_refresh call, in order
    forced,            \* hook calls started before the last
                       \* handle_missing_authorization call (None: no call)
    missing_result,    \* what the last handle_missing_authorization returned
    \* --- TransferClient ---
    client,            \* "none", "ok" or the error the constructor raised
    authorizer,        \* the type of the authorizer handed to BaseClient
    \* --- PaginatedResource, as the list methods of TransferClient build it ---
    pstate,            \* "none", "built", "exhausted" or "error"
    method,            \* the list method called ("PaginatedResource": built directly)
    num_results,       \* cap requested by the caller (None: unbounded)
    max_results_per_call,  \* page size ceiling
    max_total_results, \* hard cap (None: no cap)
    paging_style,      \* "LIMIT_OFFSET", "TOTAL" or "HAS_NEXT"
    offset,            \* the next offset to request
    yielded,           \* items yielded so far
    limits,            \* the page size each request asked for, in order
    pages,             \* the number of items each response held, in order
    server_total,      \* number of items the server holds
    server_kind,       \* whether the server honours the limit of a request
    wanted,            \* the num_results argument the caller passed
    perror             \* the error the resource raised

waitVars == <<pc, timeout, interval_arg, polling_interval, waited_time,
              result, statuses, checks, sleeps, slept, events>>

authVars == <<now, access_token, expires_at, scopes, on_refresh, lock, apc,
              err, header, h0, state_at_call, call_grants, got_other,
              hook_calls, grant_requests, refresh_calls, fetch_log,
              refresh_log, forced, missing_result>>

pageVars == <<client, authorizer, pstate, method, num_results, max_results_per_call,
              max_total_results, paging_style, offset, yielded, limits, pages,
              server_total, server_kind, wanted, perror>>

vars == <<waitVars, authVars, pageVars>>

Min(a, b) == IF a < b THEN a ELSE b

\* ------------------------------------------------------------------------
\* TransferClient.task_wait
\* ------------------------------------------------------------------------

\* the task statuses of the Transfer API
TaskStatuses == {"ACTIVE", "INACTIVE", "SUCCEEDED", "FAILED"}

TimeoutArgs == 0..MaxTimeout
IntervalArgs == 0..MaxInterval

\* faulty variant: only the timeout is validated
ValidArgs_OnlyTimeout(t, p) == ~(t < 1)

\* the "check valid args" block: neither ValueError is raised
ValidArgs(t, p) == ~(t < 1) /\ ~(p < 1)

\* faulty variant: the interval is not reduced to the timeout
ClampInterval_None(t, p) == p

\* polling_interval = min(timeout, polling_interval)
ClampInterval(t, p) == Min(t, p)

\* faulty variant: compares the time already slept, not the time about to be reached
timed_out_Late(w) == w - polling_interval > timeout

\* faulty variant: non-strict comparison
timed_out_Ge(w) == w >= timeout

\* def timed_out(waited_time): return waited_time > timeout
timed_out(w) == w > timeout

\* faulty variant: only a successful task ends the wait
IsDone_OnlySucceeded(s) == s = "SUCCEEDED"

\* if status != 'ACTIVE'
IsDone(s) == s # "ACTIVE"

WaitInit ==
    /\ pc = "idle"
    /\ timeout = 0
    /\ interval_arg = 0
    /\ polling_interval = 0
    /\ waited_time = 0
    /\ result = "none"
    /\ statuses = <<>>
    /\ checks = 0
    /\ sleeps = 0
    /\ slept = 0
    /\ events = <<>>

\* task_wait is called: argument validation, clamp, waited_time = 0
TaskWaitCall ==
    /\ UNCHANGED <<authVars, pageVars>>
    /\ pc = "idle"
    /\ \E t \in TimeoutArgs, p \in IntervalArgs :
        /\ timeout' = t
        /\ interval_arg' = p
        /\ IF ValidArgs(t, p)
           THEN /\ polling_interval' = ClampInterval(t, p)
                /\ pc' = "get_task"
                /\ result' = "none"
           ELSE /\ polling_interval' = p
                /\ pc' = "done"
                /\ result' = "ValueError"
    /\ waited_time' = 0
    /\ UNCHANGED <<statuses, checks, sleeps, slept, events>>

\* top of the loop: task = self.get_task(task_id); the request answers with a
\* status, and a status other than ACTIVE returns True
GetTask ==
    /\ UNCHANGED <<authVars, pageVars>>
    /\ pc = "get_task"
    /\ checks' = checks + 1
    /\ events' = Append(events, "status")
    /\ \E s \in TaskStatuses :
        /\ statuses' = Append(statuses, s)
        /\ IF IsDone(s)
           THEN pc' = "done" /\ result' = "True"
           ELSE pc' = "timeout_check" /\ result' = result
    /\ UNCHANGED <<timeout, interval_arg, polling_interval, waited_time,
                   sleeps, slept>>

\* faulty variant: the error of get_task is swallowed and the fetch retried
GetTaskFails_Retry ==
    /\ UNCHANGED <<authVars, pageVars>>
    /\ pc = "get_task"
    /\ checks' = checks + 1
    /\ events' = Append(events, "status_error")
    /\ pc' = IF checks < MaxTimeout THEN "get_task" ELSE "done"
    /\ result' = IF checks < MaxTimeout THEN result ELSE "TransferAPIError"
    /\ UNCHANGED <<timeout, interval_arg, polling_interval, waited_time,
                   statuses, sleeps, slept>>

\* self.get_task raises (the API answered with an error): it propagates
GetTaskFails ==
    /\ UNCHANGED <<authVars, pageVars>>
    /\ pc = "get_task"
    /\ checks' = checks + 1
    /\ events' = Append(events, "status_error")
    /\ pc' = "done"
    /\ result' = "TransferAPIError"
    /\ UNCHANGED <<timeout, interval_arg, polling_interval, waited_time,
                   statuses, sleeps, slept>>

\* faulty variant: the return after the timeout is missing
TimeoutCheck_NoReturn ==
    /\ UNCHANGED <<authVars, pageVars>>
    /\ pc = "timeout_check"
    /\ waited_time' = waited_time + polling_interval
    /\ events' = Append(events,
                   IF timed_out(waited_time') THEN "timed_out" ELSE "not_timed_out")
    /\ pc' = "sleep"
    /\ UNCHANGED <<timeout, interval_arg, polling_interval, result, statuses,
                   checks, sleeps, slept>>

\* waited_time += polling_interval; if timed_out(waited_time): return False
TimeoutCheck ==
    /\ UNCHANGED <<authVars, pageVars>>
    /\ pc = "timeout_check"
    /\ waited_time' = waited_time + polling_interval
    /\ IF timed_out(waited_time')
       THEN /\ events' = Append(events, "timed_out")
            /\ pc' = "done"
            /\ result' = "False"
       ELSE /\ events' = Append(events, "not_timed_out")
            /\ pc' = "sleep"
            /\ result' = result
    /\ UNCHANGED <<timeout, interval_arg, polling_interval, statuses,
                   checks, sleeps, slept>>

\* faulty variant: after the sleep the loop goes on at the timeout test
Sleep_NoRecheck ==
    /\ UNCHANGED <<authVars, pageVars>>
    /\ pc = "sleep"
    /\ sleeps' = sleeps + 1
    /\ slept' = slept + polling_interval
    /\ events' = Append(events, "sleep")
    /\ pc' = "timeout_check"
    /\ UNCHANGED <<timeout, interval_arg, polling_interval, waited_time,
                   result, statuses, checks>>

\* time.sleep(polling_interval), then back to the top of the loop
Sleep ==
    /\ UNCHANGED <<authVars, pageVars>>
    /\ pc = "sleep"
    /\ sleeps' = sleeps + 1
    /\ slept' = slept + polling_interval
    /\ events' = Append(events, "sleep")
    /\ pc' = "get_task"
    /\ UNCHANGED <<timeout, interval_arg, polling_interval, waited_time,
                   result, statuses, checks>>

WaitNext ==
    \/ TaskWaitCall
    \/ GetTask
    \/ GetTaskFails
    \/ TimeoutCheck
    \/ Sleep

\* ------------------------------------------------------------------------
\* ClientCredentialsAuthorizer / RenewingAuthorizer
\* ------------------------------------------------------------------------

\* access_token=None, expires_at=None: an absent value
None == -1

\* the safety margin subtracted from the expiry
ExpirationSkew == 2

Threads == 1..NThreads

\* lifetimes the auth server grants: one within the skew, one beyond it
Lifetimes == {ExpirationSkew, ExpirationSkew + 2}

\* the initial (access_token, expires_at) arguments: neither given, a token
\* without expiry, a token about to expire, a token valid for a while
InitialArgs == {<<None, None>>, <<0, None>>, <<0, 1>>, <<0, MaxTime>>}

\* the scopes string spans one resource server or two
ScopeSets == {1, 2}

NoHeader ==
    [token |-> None, expires_at |-> None, at |-> None, fetched |-> FALSE,
     forced |-> None]

\* the response of oauth2_client_credentials_tokens(requested_scopes=scopes):
\* one token per resource server, the first in the response itself and the
\* rest in other_tokens
GrantResponse(id, life) ==
    [access_token |-> id, expires_at |-> now + life, other_tokens |-> scopes - 1]

\* faulty variant: the check of other_tokens is missing
RaisesGlobusError_Never(res) == FALSE

\* _get_token_response: if res.other_tokens: raise GlobusError(...)
RaisesGlobusError(res) == res.other_tokens > 0

\* faulty variant: a token given without expires_at counts as VALID
AuthState_TokenAlone ==
    IF access_token = None THEN "NO_TOKEN"
    ELSE IF expires_at = None THEN "VALID"
    ELSE IF now >= expires_at THEN "EXPIRED"
    ELSE IF now >= expires_at - ExpirationSkew THEN "EXPIRING_SOON"
    ELSE "VALID"

\* the state machine's states
AuthState ==
    IF access_token = None \/ expires_at = None THEN "NO_TOKEN"
    ELSE IF now >= expires_at THEN "EXPIRED"
    ELSE IF now >= expires_at - ExpirationSkew THEN "EXPIRING_SOON"
    ELSE "VALID"

\* faulty variant: renews only once the token has expired
NeedsRenewal_OnlyExpired == AuthState \in {"NO_TOKEN", "EXPIRED"}

\* get_authorization_header renews in every state but VALID
NeedsRenewal == AuthState # "VALID"

\* faulty variant: the callback is never called
OnRefreshCalls_Never(res) == <<>>

\* the calls of the callback a successful renewal makes: fn(TokenResponse) if
\* on_refresh was given, none otherwise
OnRefreshCalls(res) == IF on_refresh THEN <<res>> ELSE <<>>

\* faulty variant: the renewal is not guarded by the lock
LockFree_Unguarded == TRUE

\* nobody holds the renewal lock
LockFree == lock = {}

AuthInit ==
    /\ now = 0
    /\ \E args \in InitialArgs :
          /\ access_token = args[1]
          /\ expires_at = args[2]
    /\ scopes \in ScopeSets
    /\ on_refresh \in BOOLEAN
    /\ lock = {}
    /\ apc = [t \in Threads |-> "idle"]
    /\ err = [t \in Threads |-> "none"]
    /\ header = [t \in Threads |-> NoHeader]
    /\ h0 = [t \in Threads |-> 0]
    /\ state_at_call = [t \in Threads |-> "none"]
    /\ call_grants = [t \in Threads |-> 0]
    /\ got_other = [t \in Threads |-> FALSE]
    /\ hook_calls = 0
    /\ grant_requests = 0
    /\ refresh_calls = 0
    /\ fetch_log = <<>>
    /\ refresh_log = <<>>
    /\ forced = None
    /\ missing_result = "none"

\* a caller invokes get_authorization_header()
Invoke(t) ==
    /\ UNCHANGED <<waitVars, pageVars>>
    /\ apc[t] = "idle"
    /\ hook_calls + Cardinality({u \in Threads : apc[u] = "called"}) < MaxFetches
    /\ apc' = [apc EXCEPT ![t] = "called"]
    /\ h0' = [h0 EXCEPT ![t] = hook_calls]
    /\ state_at_call' = [state_at_call EXCEPT ![t] = AuthState]
    /\ UNCHANGED <<now, access_token, expires_at, scopes, on_refresh, lock,
                   err, header, call_grants, got_other,
                   hook_calls, grant_requests, refresh_calls, fetch_log,
                   refresh_log, forced, missing_result>>

\* the caller takes its turn: with a VALID token it returns the header; else
\* it takes the lock, calls _get_token_response, and the grant request goes out
Enter(t) ==
    /\ UNCHANGED <<waitVars, pageVars>>
    /\ apc[t] = "called"
    /\ LockFree
    /\ IF NeedsRenewal
       THEN /\ lock' = lock \cup {t}
            /\ apc' = [apc EXCEPT ![t] = "fetching"]
            /\ hook_calls' = hook_calls + 1
            /\ grant_requests' = grant_requests + 1
            /\ call_grants' = [call_grants EXCEPT ![t] = 1]
            /\ UNCHANGED header
       ELSE /\ apc' = [apc EXCEPT ![t] = "returned"]
            /\ header' = [header EXCEPT ![t] =
                  [token |-> access_token, expires_at |-> expires_at,
                   at |-> now, fetched |-> FALSE, forced |-> forced]]
            /\ UNCHANGED <<lock, hook_calls, grant_requests, call_grants>>
    /\ UNCHANGED <<now, access_token, expires_at, scopes, on_refresh, err, h0,
                   state_at_call, got_other, refresh_calls, fetch_log,
                   refresh_log, forced, missing_result>>

\* the grant answers; _get_token_response raises on other_tokens or returns the
\* response, which the renewal applies: token and expiry are overwritten,
\* on_refresh is called, the header is returned
GrantResponds(t) ==
    /\ UNCHANGED <<waitVars, pageVars>>
    /\ apc[t] = "fetching"
    /\ \E life \in Lifetimes :
        LET res == GrantResponse(hook_calls, life) IN
        /\ got_other' = [got_other EXCEPT ![t] = res.other_tokens > 0]
        /\ IF RaisesGlobusError(res)
           THEN /\ apc' = [apc EXCEPT ![t] = "raised"]
                /\ err' = [err EXCEPT ![t] = "GlobusError"]
                /\ header' = [header EXCEPT ![t] = [NoHeader EXCEPT !.at = now]]
                /\ fetch_log' = Append(fetch_log,
                      [ok |-> FALSE, token |-> None, expires_at |-> None, at |-> now])
                /\ UNCHANGED <<access_token, expires_at, refresh_calls,
                               refresh_log>>
           ELSE /\ access_token' = res.access_token
                /\ expires_at' = res.expires_at
                /\ refresh_calls' = refresh_calls + Len(OnRefreshCalls(res))
                /\ refresh_log' = refresh_log \o OnRefreshCalls(res)
                /\ apc' = [apc EXCEPT ![t] = "returned"]
                /\ header' = [header EXCEPT ![t] =
                      [token |-> res.access_token, expires_at |-> res.expires_at,
                       at |-> now, fetched |-> TRUE, forced |-> forced]]
                /\ fetch_log' = Append(fetch_log,
                      [ok |-> TRUE, token |-> res.access_token,
                       expires_at |-> res.expires_at, at |-> now])
                /\ UNCHANGED err
    /\ lock' = lock \ {t}
    /\ UNCHANGED <<now, scopes, on_refresh, h0, state_at_call, call_grants,
                   hook_calls, grant_requests, forced, missing_result>>

\* the grant request fails (network or credentials): the error propagates
GrantFails(t) ==
    /\ UNCHANGED <<waitVars, pageVars>>
    /\ apc[t] = "fetching"
    /\ apc' = [apc EXCEPT ![t] = "raised"]
    /\ err' = [err EXCEPT ![t] = "AuthAPIError"]
    /\ header' = [header EXCEPT ![t] = [NoHeader EXCEPT !.at = now]]
    /\ fetch_log' = Append(fetch_log,
          [ok |-> FALSE, token |-> None, expires_at |-> None, at |-> now])
    /\ lock' = lock \ {t}
    /\ UNCHANGED <<now, access_token, expires_at, scopes, on_refresh,
                   h0, state_at_call, call_grants, got_other, hook_calls,
                   grant_requests, refresh_calls, refresh_log, forced,
                   missing_result>>

\* once no call is in progress the callers forget their outcomes and may call
\* again
CallAgain ==
    /\ UNCHANGED <<waitVars, pageVars>>
    /\ \A t \in Threads : apc[t] \in {"idle", "returned", "raised"}
    /\ \E t \in Threads : apc[t] # "idle"
    /\ apc' = [t \in Threads |-> "idle"]
    /\ err' = [t \in Threads |-> "none"]
    /\ header' = [t \in Threads |-> NoHeader]
    /\ h0' = [t \in Threads |-> 0]
    /\ state_at_call' = [t \in Threads |-> "none"]
    /\ call_grants' = [t \in Threads |-> 0]
    /\ got_other' = [t \in Threads |-> FALSE]
    /\ UNCHANGED <<now, access_token, expires_at, scopes, on_refresh, lock,
                   hook_calls, grant_requests, refresh_calls, fetch_log,
                   refresh_log, forced, missing_result>>

\* faulty variant: True is returned and the cached token is kept
HandleMissingAuthorization_KeepsToken(t) ==
    /\ UNCHANGED <<waitVars, pageVars>>
    /\ apc[t] = "returned"
    /\ LockFree
    /\ forced = None
    /\ forced' = hook_calls
    /\ missing_result' = "True"
    /\ UNCHANGED <<now, access_token, expires_at, scopes, on_refresh, lock,
                   apc, err, header, h0, state_at_call, call_grants,
                   got_other, hook_calls, grant_requests, refresh_calls,
                   fetch_log, refresh_log>>

\* handle_missing_authorization(): a request that carried the header was
\* answered 401 (the first 401 of the run); the cached token is marked as
\* expired whatever its expiry, so that the next get_authorization_header
\* renews, and True is returned
HandleMissingAuthorization(t) ==
    /\ UNCHANGED <<waitVars, pageVars>>
    /\ apc[t] = "returned"
    /\ LockFree
    /\ forced = None
    /\ expires_at' = None
    /\ forced' = hook_calls
    /\ missing_result' = "True"
    /\ UNCHANGED <<now, access_token, scopes, on_refresh, lock, apc, err,
                   header, h0, state_at_call, call_grants, got_other,
                   hook_calls, grant_requests, refresh_calls, fetch_log,
                   refresh_log>>

\* time passes
Tick ==
    /\ UNCHANGED <<waitVars, pageVars>>
    /\ now < MaxTime
    /\ now' = now + 1
    /\ UNCHANGED <<access_token, expires_at, scopes, on_refresh, lock, apc,
                   err, header, h0, state_at_call, call_grants, got_other,
                   hook_calls, grant_requests, refresh_calls, fetch_log,
                   refresh_log, forced, missing_result>>

AuthNext ==
    \/ \E t \in Threads : Invoke(t)
    \/ \E t \in Threads : Enter(t)
    \/ \E t \in Threads : GrantResponds(t)
    \/ \E t \in Threads : GrantFails(t)
    \/ CallAgain
    \/ Tick

\* the authorizer behind a client that answers a 401 with
\* handle_missing_authorization and one retry
AuthRetryNext ==
    \/ \E t \in Threads : Invoke(t)
    \/ \E t \in Threads : Enter(t)
    \/ \E t \in Threads : GrantResponds(t)
    \/ \E t \in Threads : GrantFails(t)
    \/ CallAgain
    \/ \E t \in Threads : HandleMissingAuthorization(t)
    \/ Tick

\* ------------------------------------------------------------------------
\* PaginatedResource and the list methods of TransferClient
\* ------------------------------------------------------------------------

\* the authorizer classes of the SDK
AuthorizerTypes == {"AccessTokenAuthorizer", "RefreshTokenAuthorizer",
                    "ClientCredentialsAuthorizer", "BasicAuthorizer"}

\* the authorizer argument of TransferClient: an instance of one of the
\* classes, or None
AuthorizerArgs == AuthorizerTypes \cup {"None"}

\* the classes an authorizer is an instance of: its own class and its bases
\* (class ClientCredentialsAuthorizer(RenewingAuthorizer))
ClassesOf(a) ==
    IF a = "ClientCredentialsAuthorizer"
    THEN {a, "RenewingAuthorizer", "GlobusAuthorizer"}
    ELSE {a, "GlobusAuthorizer"}

\* TransferClient.allowed_authorizer_types ("disallow basic auth")
allowed_authorizer_types ==
    {"AccessTokenAuthorizer", "RefreshTokenAuthorizer"}

\* BaseClient.__init__'s test of the authorizer against the class attribute:
\* no authorizer passes, an authorizer passes when it is an instance of a
\* listed class
AuthorizerAllowed(a) ==
    \/ a = "None"
    \/ ClassesOf(a) \cap allowed_authorizer_types # {}

PagingStyles == {"LIMIT_OFFSET", "TOTAL", "HAS_NEXT"}

\* the paging style of a PaginatedResource built without paging_style
PAGING_STYLE_DEFAULT == "LIMIT_OFFSET"

\* faulty variant: endpoint_search passes no max_total_results
endpoint_search_NoCap(n) ==
    [num_results |-> n, max_results_per_call |-> 100,
     max_total_results |-> None, paging_style |-> PAGING_STYLE_DEFAULT]

\* faulty variant: endpoint_search asks for pages of up to 1000
endpoint_search_BigPage(n) ==
    [num_results |-> n, max_results_per_call |-> 1000,
     max_total_results |-> 1000, paging_style |-> PAGING_STYLE_DEFAULT]

\* endpoint_search: PaginatedResource(..., num_results=num_results,
\* max_results_per_call=100, max_total_results=1000)
endpoint_search(n) ==
    [num_results |-> n, max_results_per_call |-> 100,
     max_total_results |-> 1000, paging_style |-> PAGING_STYLE_DEFAULT]

\* endpoint_manager_task_list: max_results_per_call=1000, HAS_NEXT paging
endpoint_manager_task_list(n) ==
    [num_results |-> n, max_results_per_call |-> 1000,
     max_total_results |-> None, paging_style |-> "HAS_NEXT"]

\* faulty variant: task_list does not hand num_results to the resource
task_list_Unbounded(n) ==
    [num_results |-> None, max_results_per_call |-> 1000,
     max_total_results |-> None, paging_style |-> "TOTAL"]

\* task_list: max_results_per_call=1000, TOTAL paging
task_list(n) ==
    [num_results |-> n, max_results_per_call |-> 1000,
     max_total_results |-> None, paging_style |-> "TOTAL"]

\* task_event_list: max_results_per_call=1000, TOTAL paging
task_event_list(n) ==
    [num_results |-> n, max_results_per_call |-> 1000,
     max_total_results |-> None, paging_style |-> "TOTAL"]

ListMethods == {"endpoint_search", "endpoint_manager_task_list", "task_list",
                "task_event_list"}

ListMethodParams(m, n) ==
    CASE m = "endpoint_search" -> endpoint_search(n)
      [] m = "endpoint_manager_task_list" -> endpoint_manager_task_list(n)
      [] m = "task_list" -> task_list(n)
      [] m = "task_event_list" -> task_event_list(n)

\* the num_results arguments callers pass: unbounded, the defaults (10, 25)
\* and values around the caps
NumResultsArgs == {None, 1, 10, 25, 120, 1000, 1001, 1200}

\* the parameters of a PaginatedResource built directly
DirectParams ==
    [num_results : {None, 3, 100}, max_results_per_call : {10},
     max_total_results : {None, 50}, paging_style : PagingStyles]

\* the number of items the server holds
ServerTotals == {0, 7, 37, 120, 1000, 1500}

\* the constructor's validation: num_results and max_total_results are both
\* given and num_results > max_total_results
Overrun(params) ==
    /\ params.num_results # None
    /\ params.max_total_results # None
    /\ params.num_results > params.max_total_results

\* results still wanted (None: unbounded)
RemainingWanted == IF num_results = None THEN None ELSE num_results - yielded

\* the page size a request asks for
PageLimit ==
    IF RemainingWanted = None THEN max_results_per_call
    ELSE Min(max_results_per_call, RemainingWanted)

\* a server either returns at most limit items, or ignores the limit and
\* returns everything from the offset on
ServerKinds == {"exact", "ignores_limit"}

\* the number of items the server returns for (offset, limit)
ServerPage(off, lim) ==
    IF server_total - off <= 0 THEN 0
    ELSE IF server_kind = "exact" THEN Min(lim, server_total - off)
    ELSE server_total - off

\* the items of a page of n that are yielded: every yielded item counts
\* against num_results, and the sequence ends when none is wanted any more
Yield(n) == IF RemainingWanted = None THEN n ELSE Min(n, RemainingWanted)

\* faulty variant: the running total is never held against max_total_results
OverCap_Never(total) == FALSE

\* whether a running total exceeds max_total_results
OverCap(total) == max_total_results # None /\ total > max_total_results

\* faulty variant: a LIMIT_OFFSET sequence ends only on an empty page
LastPage_OnlyEmpty(n, lim) ==
    \/ (num_results # None /\ yielded + n >= num_results)
    \/ CASE paging_style = "LIMIT_OFFSET" -> n = 0
         [] paging_style = "TOTAL" -> offset + lim >= server_total
         [] paging_style = "HAS_NEXT" -> offset + n >= server_total

\* whether the sequence ends after a page of n items asked with limit lim
LastPage(n, lim) ==
    \/ (num_results # None /\ yielded + n >= num_results)
    \/ CASE paging_style = "LIMIT_OFFSET" -> n < lim
         [] paging_style = "TOTAL" -> offset + lim >= server_total
         [] paging_style = "HAS_NEXT" -> offset + n >= server_total

PageInit ==
    /\ client = "none"
    /\ authorizer = "none"
    /\ pstate = "none"
    /\ method = "none"
    /\ num_results = None
    /\ max_results_per_call = 0
    /\ max_total_results = None
    /\ paging_style = "none"
    /\ offset = 0
    /\ yielded = 0
    /\ limits = <<>>
    /\ pages = <<>>
    /\ server_total \in ServerTotals
    /\ server_kind \in ServerKinds
    /\ wanted = None
    /\ perror = "none"

\* PaginatedResource.__init__: store the parameters, fail on an overrun
Build(m, params) ==
    /\ method' = m
    /\ num_results' = params.num_results
    /\ max_results_per_call' = params.max_results_per_call
    /\ max_total_results' = params.max_total_results
    /\ paging_style' = params.paging_style
    /\ IF Overrun(params)
       THEN pstate' = "error" /\ perror' = "PaginationOverrunError"
       ELSE pstate' = "built" /\ perror' = perror
    /\ UNCHANGED <<client, authorizer, offset, yielded, limits, pages,
                   server_total, server_kind>>

\* TransferClient.__init__: with no authorizer and a transfer_token in the
\* config an AccessTokenAuthorizer is made of the token; BaseClient.__init__
\* then accepts or rejects the authorizer
NewTransferClient ==
    /\ UNCHANGED <<waitVars, authVars>>
    /\ client = "none"
    /\ \E a \in AuthorizerArgs, config_token \in BOOLEAN :
          LET auth == IF a = "None" /\ config_token
                      THEN "AccessTokenAuthorizer" ELSE a
          IN /\ authorizer' = auth
             /\ client' = IF AuthorizerAllowed(auth) THEN "ok" ELSE "ValueError"
    /\ UNCHANGED <<pstate, method, num_results, max_results_per_call,
                   max_total_results, paging_style, offset, yielded, limits,
                   pages, server_total, server_kind, wanted, perror>>

\* a list method of TransferClient is called
CallListMethod ==
    /\ UNCHANGED <<waitVars, authVars>>
    /\ client = "ok"
    /\ pstate = "none"
    /\ \E m \in ListMethods, n \in NumResultsArgs :
          /\ wanted' = n
          /\ Build(m, ListMethodParams(m, n))

\* a PaginatedResource is built directly
BuildDirectly ==
    /\ UNCHANGED <<waitVars, authVars>>
    /\ client = "ok"
    /\ pstate = "none"
    /\ \E params \in DirectParams :
          /\ wanted' = params.num_results
          /\ Build("PaginatedResource", params)

\* the sequence is consumed: the next page is requested and its items yielded
FetchPage ==
    /\ UNCHANGED <<waitVars, authVars>>
    /\ pstate = "built"
    /\ IF OverCap(yielded + 1)
       THEN /\ pstate' = "error"
            /\ perror' = "PaginationOverrunError"
            /\ UNCHANGED <<offset, yielded, limits, pages>>
       ELSE LET lim == PageLimit
                n == ServerPage(offset, lim)
                k == Yield(n)
            IN /\ limits' = Append(limits, lim)
               /\ pages' = Append(pages, n)
               /\ offset' = offset + n
               /\ IF OverCap(yielded + k)
                  THEN /\ yielded' = max_total_results
                       /\ pstate' = "error"
                       /\ perror' = "PaginationOverrunError"
                  ELSE /\ yielded' = yielded + k
                       /\ pstate' = IF LastPage(n, lim) THEN "exhausted" ELSE "built"
                       /\ perror' = perror
    /\ UNCHANGED <<client, authorizer, method, num_results,
                   max_results_per_call, max_total_results, paging_style,
                   server_total, server_kind, wanted>>

PageNext ==
    \/ NewTransferClient
    \/ CallListMethod
    \/ BuildDirectly
    \/ FetchPage

\* ------------------------------------------------------------------------
\* Specifications
\* ------------------------------------------------------------------------

\* the authorizer before any use, as the task_wait specification holds it
AuthUnused ==
    /\ AuthInit
    /\ access_token = None
    /\ expires_at = None
    /\ scopes = 1
    /\ on_refresh = FALSE

\* no paginated resource exists, as the other specifications hold it
PageUnused == PageInit /\ server_total = 0 /\ server_kind = "exact"

InitWait == WaitInit /\ AuthUnused /\ PageUnused

SpecWait == InitWait /\ [][WaitNext]_vars

\* task_wait is one synchronous call on one thread: once called, every
\* statement of the loop is executed in turn, so a step that can be taken is
\* taken
SpecWaitFair == InitWait /\ [][WaitNext]_vars /\ WF_vars(WaitNext)

InitAuth == AuthInit /\ WaitInit /\ PageUnused

SpecAuth == InitAuth /\ [][AuthNext]_vars

\* a client retrying on 401: the authorizer was given a token that is VALID
\* at the start, the scopes are of one resource server and no callback is
\* given
InitAuthRetry ==
    /\ AuthInit
    /\ access_token # None
    /\ expires_at = MaxTime
    /\ scopes = 1
    /\ on_refresh = FALSE
    /\ WaitInit
    /\ PageUnused

SpecAuthRetry == InitAuthRetry /\ [][AuthRetryNext]_vars

InitPage == PageInit /\ WaitInit /\ AuthUnused

SpecPage == InitPage /\ [][PageNext]_vars

\* ------------------------------------------------------------------------
\* Properties of task_wait (checked under SpecWait)
\* ------------------------------------------------------------------------

\* every status a get_task call has returned so far is ACTIVE
AllActive == \A i \in 1..Len(statuses) : statuses[i] = "ACTIVE"

\* the call task_wait(timeout=5, polling_interval=10) has ended and every
\* status fetch succeeded with ACTIVE
Wait5_10_Ended ==
    /\ pc = "done"
    /\ timeout = 5
    /\ interval_arg = 10
    /\ result # "TransferAPIError"
    /\ AllActive

\* C5 as stated: task_wait(timeout=5, polling_interval=10) on a task that
\* stays ACTIVE clamps the interval to 5, makes exactly one status check and
\* returns False without sleeping 10s.
C5_OneCheckOnly ==
    Wait5_10_Ended =>
        /\ polling_interval = 5
        /\ checks = 1
        /\ result = "False"
        /\ slept < 10

\* C5 amended: task_wait(timeout=5, polling_interval=10) on a task that stays
\* ACTIVE clamps the interval to 5, makes exactly two status checks with one
\* sleep of 5s between them, and returns False; it never sleeps 10s.
C5_TwoChecksOneSleep ==
    Wait5_10_Ended =>
        /\ polling_interval = 5
        /\ checks = 2
        /\ sleeps = 1
        /\ slept = 5
        /\ result = "False"

C5_Witness ==
    /\ Wait5_10_Ended
    /\ result = "False"
    /\ events = <<"status", "not_timed_out", "sleep", "status", "timed_out">>

\* C6: task_wait returns False only if every status check it made reported
\* ACTIVE and the waited time has passed the timeout; it returns True only if
\* the last status check reported a status other than ACTIVE; it never
\* returns True while the last observed status is ACTIVE.
C6_ResultContract ==
    /\ result = "False" =>
          /\ checks >= 1
          /\ Len(statuses) = checks
          /\ AllActive
          /\ waited_time > timeout
    /\ result = "True" =>
          /\ checks >= 1
          /\ Len(statuses) = checks
          /\ statuses[Len(statuses)] # "ACTIVE"
    /\ (Len(statuses) >= 1 /\ statuses[Len(statuses)] = "ACTIVE")
          => result # "True"

C6_Witness ==
    /\ pc = "done"
    /\ result = "False"
    /\ checks >= 3

\* C7: if timeout < 1 or polling_interval < 1, task_wait raises ValueError
\* before any task-status request and before any sleep.
C7_ValidationFirst ==
    (pc # "idle" /\ (timeout < 1 \/ interval_arg < 1)) =>
        /\ pc = "done"
        /\ result = "ValueError"
        /\ checks = 0
        /\ sleeps = 0
        /\ events = <<>>

C7_Witness ==
    /\ pc = "done"
    /\ timeout >= 1
    /\ interval_arg < 1
    /\ result = "ValueError"

\* C8: for valid arguments, if the first status check reports a status other
\* than ACTIVE, task_wait returns True after exactly one status check and
\* zero sleeps.
C8_EarlyCompletion ==
    (Len(statuses) >= 1 /\ statuses[1] # "ACTIVE") =>
        /\ pc = "done"
        /\ result = "True"
        /\ checks = 1
        /\ sleeps = 0
        /\ slept = 0

C8_Witness ==
    /\ statuses = <<"FAILED">>
    /\ result = "True"
    /\ timeout > 1
    /\ interval_arg > timeout

\* C9: every sleep lasts min(timeout, polling_interval) and is no longer than
\* the remaining budget (timeout minus the time already slept), so the total
\* time slept by one call never exceeds timeout.
C9_NeverOversleeps ==
    /\ pc = "sleep" =>
          /\ polling_interval = Min(timeout, interval_arg)
          /\ polling_interval <= timeout - slept
    /\ slept = sleeps * Min(timeout, interval_arg)
    /\ slept <= timeout

C9_Witness ==
    /\ pc = "done"
    /\ sleeps >= 2
    /\ slept = timeout
    /\ interval_arg < timeout

\* C10: in every iteration the status check comes first, then the timeout
\* check, then the sleep: a sleep only directly follows a timeout check that
\* found the budget not exceeded, a timeout check only directly follows a
\* successful status check, a status check only starts the loop or directly
\* follows a sleep, and nothing follows a timeout check that found the budget
\* exceeded.
C10_IterationOrder ==
    \A i \in 1..Len(events) :
        /\ events[i] = "sleep" =>
              i > 1 /\ events[i-1] = "not_timed_out"
        /\ events[i] \in {"timed_out", "not_timed_out"} =>
              i > 1 /\ events[i-1] = "status"
        /\ events[i] \in {"status", "status_error"} =>
              i = 1 \/ events[i-1] = "sleep"
        /\ events[i] = "timed_out" => i = Len(events)

C10_Witness ==
    /\ pc = "done"
    /\ sleeps >= 2
    /\ events[Len(events)] = "timed_out"

\* the call has ended, its arguments were valid, and every status fetch
\* succeeded with ACTIVE
EndedAllActive ==
    /\ pc = "done"
    /\ result \notin {"ValueError", "TransferAPIError"}
    /\ AllActive

\* C18: the timeout test is strict, so when timeout equals polling_interval
\* and the task stays ACTIVE, task_wait makes exactly two status checks and
\* exactly one sleep, then returns False.
C18_EqualTimeoutInterval ==
    (EndedAllActive /\ timeout = interval_arg) =>
        /\ checks = 2
        /\ sleeps = 1
        /\ slept = timeout
        /\ waited_time = 2 * timeout
        /\ result = "False"

C18_Witness ==
    /\ EndedAllActive
    /\ timeout = interval_arg
    /\ timeout = 3
    /\ result = "False"
    /\ checks = 2

\* C19: for every valid timeout and polling_interval, also with the timeout
\* shorter than the polling interval, once the first status check has
\* reported ACTIVE task_wait sleeps at least once before it returns False.
C19_AtLeastOneSleep ==
    /\ result = "False" => sleeps >= 1
    /\ (Len(statuses) >= 1 /\ statuses[1] = "ACTIVE" /\ sleeps = 0) =>
          pc \in {"timeout_check", "sleep"}

C19_Witness ==
    /\ result = "False"
    /\ timeout < interval_arg
    /\ sleeps = 1
    /\ slept = timeout

\* the most status checks a call with valid arguments makes
MaxChecks == (timeout \div Min(timeout, interval_arg)) + 1

\* C20: for every timeout >= 1 and polling_interval >= 1 and every sequence
\* of task statuses, task_wait makes at most
\* floor(timeout / min(timeout, polling_interval)) + 1 status checks, makes
\* exactly that many when every check reports ACTIVE, and until it has
\* returned it can always take its next step; run to completion, as the
\* synchronous loop is, it eventually returns.
BoundedChecks ==
    (pc # "idle" /\ result # "ValueError") =>
        /\ checks <= MaxChecks
        /\ result = "False" => checks = MaxChecks
        /\ pc # "done" => ENABLED WaitNext
        /\ pc = "get_task" => checks < MaxChecks

C20_Terminates == []BoundedChecks /\ <>(pc = "done")

C20_Witness ==
    /\ result = "False"
    /\ timeout = 5
    /\ interval_arg = 2
    /\ checks = 3


\* the number of steps of one kind the loop has taken
CountEvents(kind) == Cardinality({i \in 1..Len(events) : events[i] = kind})

\* C22: if a task-status fetch inside task_wait fails with an API error, the
\* error propagates to the caller: task_wait returns neither True nor False,
\* and after the failing fetch there is no further status check and no
\* further sleep.
C22_ErrorPropagates ==
    /\ \A i \in 1..Len(events) :
          events[i] = "status_error" =>
              /\ i = Len(events)
              /\ pc = "done"
              /\ result = "TransferAPIError"
    /\ result = "TransferAPIError" =>
          /\ pc = "done"
          /\ ~ENABLED WaitNext
          /\ Len(events) >= 1
          /\ events[Len(events)] = "status_error"
          /\ checks = Len(statuses) + 1
          /\ sleeps = CountEvents("sleep")
          /\ \A k \in 1..Len(statuses) : statuses[k] = "ACTIVE"

\* the third fetch failed, after two ACTIVE answers and two sleeps
C22_Witness ==
    /\ result = "TransferAPIError"
    /\ checks = 3
    /\ sleeps = 2
    /\ statuses = <<"ACTIVE", "ACTIVE">>

\* C23: every sleep in task_wait is followed by a fresh status check before
\* any return: task_wait never returns False directly after a sleep, and a
\* task that has left ACTIVE during a sleep, the last one included, makes
\* task_wait return True.
C23_RecheckAfterSleep ==
    /\ \A i \in 1..Len(events) :
          events[i] = "sleep" =>
              IF i = Len(events) THEN pc = "get_task" /\ result = "none"
              ELSE events[i + 1] \in {"status", "status_error"}
    /\ result = "False" =>
          /\ Len(events) >= 2
          /\ events[Len(events)] = "timed_out"
          /\ events[Len(events) - 1] = "status"
          /\ statuses[Len(statuses)] = "ACTIVE"
    /\ (pc = "done" /\ Len(statuses) >= 1
          /\ statuses[Len(statuses)] # "ACTIVE") => result = "True"
    /\ checks = CountEvents("status") + CountEvents("status_error")
    /\ (pc \in {"timeout_check", "sleep", "done"} /\ checks > 0) =>
          checks = sleeps + 1

\* the task left ACTIVE during the last sleep the timeout allows: the check
\* after it returns True
C23_Witness ==
    /\ result = "True"
    /\ timeout = 6
    /\ interval_arg = 2
    /\ sleeps = 3
    /\ checks = MaxChecks
    /\ statuses = <<"ACTIVE", "ACTIVE", "ACTIVE", "SUCCEEDED">>


\* ------------------------------------------------------------------------
\* Properties of the authorizer (checked under SpecAuth)
\* ------------------------------------------------------------------------

\* C1: whenever the grant response carries other tokens,
\* _get_token_response raises instead of returning the response (the call
\* yields no header and the authorizer's token is not replaced), and the hook
\* call has issued exactly one grant request (no retry): grant requests and
\* hook calls stay equal in number.
C1_OtherTokensRaise ==
    /\ \A t \in Threads :
          got_other[t] =>
              /\ apc[t] = "raised"
              /\ err[t] = "GlobusError"
              /\ header[t].token = None
              /\ call_grants[t] = 1
    /\ grant_requests = hook_calls
    /\ scopes > 1 => \A i \in 1..Len(fetch_log) : ~fetch_log[i].ok

C1_Witness ==
    /\ hook_calls >= 2
    /\ \E t \in Threads : got_other[t] /\ apc[t] = "raised"

\* the header a returned call carries was fresh when the call returned
FreshAtReturn(t) == header[t].expires_at - ExpirationSkew > header[t].at

BatchDone ==
    \A t \in Threads :
        /\ apc[t] \in {"returned", "raised"}
        /\ state_at_call[t] = "EXPIRED"
        /\ h0[t] = h0[1]

FirstFetchHeld ==
    /\ Len(fetch_log) > h0[1]
    /\ fetch_log[h0[1] + 1].ok
    /\ \A t \in Threads :
          fetch_log[h0[1] + 1].expires_at - ExpirationSkew > header[t].at

OkFetches == SelectSeq(fetch_log, LAMBDA e : e.ok)

\* C16: the on_refresh callback, when set, is called exactly once with the
\* TokenResponse for every successful fetch of a new access token, before
\* that token is returned in any header; it is not called when no fetch
\* happens or when the acquisition fails, and never when it is not set.
C16_CallbackPerFetch ==
    /\ refresh_calls = Len(refresh_log)
    /\ ~on_refresh => refresh_log = <<>>
    /\ on_refresh =>
          /\ Len(refresh_log) = Len(OkFetches)
          /\ \A i \in 1..Len(refresh_log) :
                /\ refresh_log[i].access_token = OkFetches[i].token
                /\ refresh_log[i].expires_at = OkFetches[i].expires_at
          /\ \A t \in Threads :
                (apc[t] = "returned" /\ header[t].token >= 1) =>
                    \E i \in 1..Len(refresh_log) :
                        /\ refresh_log[i].access_token = header[t].token
                        /\ refresh_log[i].expires_at = header[t].expires_at

\* one acquisition failed and one succeeded, the callback was called once,
\* and a caller was handed the cached token without a further call of it
C16_Witness ==
    /\ on_refresh
    /\ Len(fetch_log) = 2
    /\ Len(OkFetches) = 1
    /\ Len(refresh_log) = 1
    /\ \E t \in Threads :
          /\ apc[t] = "returned"
          /\ ~header[t].fetched
          /\ header[t].token = refresh_log[1].access_token

\* C17: an initial access_token is used only if expires_at is also set: given
\* without expires_at it is never sent; the authorizer holds no valid token,
\* and a header carries a token only after the client-credentials grant has
\* delivered one.
C17_TokenNeedsExpiry ==
    /\ \A t \in Threads :
          apc[t] = "returned" =>
              /\ header[t].expires_at # None
              /\ header[t].token = 0 =>
                    (~header[t].fetched /\ state_at_call[t] # "NO_TOKEN")
              /\ state_at_call[t] = "NO_TOKEN" =>
                    /\ header[t].token \in 1..Len(fetch_log)
                    /\ fetch_log[header[t].token].ok
    /\ (access_token = 0 /\ expires_at = None) =>
          /\ \A t \in Threads : apc[t] # "returned"
          /\ \A t \in Threads : apc[t] # "idle" => state_at_call[t] = "NO_TOKEN"

\* the token was given without expires_at, a caller asked for a header, the
\* grant failed and the call raised instead of sending the supplied token
C17_Witness ==
    /\ access_token = 0
    /\ expires_at = None
    /\ Len(fetch_log) = 1
    /\ \E t \in Threads : apc[t] = "raised" /\ err[t] = "AuthAPIError"

requests == Len(limits)

\* C4: whenever num_results and max_total_results are both given and
\* num_results > max_total_results, building the resource fails at once with
\* PaginationOverrunError and no request is ever issued; endpoint_search is
\* built with the cap of 1000, so this holds of endpoint_search with
\* num_results above 1000 (such as 1200).
C4_OverrunAtConstruction ==
    /\ (/\ pstate # "none"
        /\ num_results # None
        /\ max_total_results # None
        /\ num_results > max_total_results) =>
          /\ pstate = "error"
          /\ perror = "PaginationOverrunError"
          /\ requests = 0
          /\ yielded = 0
    /\ (method = "endpoint_search" /\ num_results # None /\ num_results > 1000) =>
          /\ pstate = "error"
          /\ perror = "PaginationOverrunError"
          /\ requests = 0
          /\ yielded = 0

C4_Witness ==
    /\ method = "endpoint_search"
    /\ num_results = 1200
    /\ max_total_results = 1000
    /\ server_total > 0
    /\ pstate = "error"

\* ------------------------------------------------------------------------
\* Properties of the TransferClient constructor (checked under SpecPage)
\* ------------------------------------------------------------------------

\* C11: a TransferClient can be constructed with a ClientCredentialsAuthorizer
\* as its authorizer: the allowed-authorizer-types check accepts it.
C11_ClientCredentialsAccepted ==
    authorizer = "ClientCredentialsAuthorizer" => client = "ok"

\* what the constructor does instead: the client exists exactly when no
\* authorizer, an AccessTokenAuthorizer or a RefreshTokenAuthorizer was handed
\* to BaseClient
C11_OnlyListedAccepted ==
    client # "none" =>
        (client = "ok" <=>
            authorizer \in {"None", "AccessTokenAuthorizer",
                            "RefreshTokenAuthorizer"})

\* ------------------------------------------------------------------------
\* Properties of the paginated sequences (checked under SpecPage)
\* ------------------------------------------------------------------------

\* a LIMIT_OFFSET resource with max_results_per_call=10 and num_results=100
\* over a server that holds 37 items and honours the limit
Exhaustion37 ==
    /\ method = "PaginatedResource"
    /\ paging_style = "LIMIT_OFFSET"
    /\ num_results = 100
    /\ max_results_per_call = 10
    /\ max_total_results = None
    /\ server_total = 37
    /\ server_kind = "exact"

\* s is the beginning of t
IsPrefix(s, t) == Len(s) <= Len(t) /\ \A i \in 1..Len(s) : s[i] = t[i]

\* C13: against a server holding 37 items, with max_results_per_call=10 and
\* num_results=100, the LIMIT_OFFSET sequence yields exactly 37 items in
\* server order using exactly 4 requests that return 10, 10, 10 and 7 items,
\* then stops without a fifth request.
C13_Exhaustion ==
    Exhaustion37 =>
        /\ pstate # "error"
        /\ IsPrefix(pages, <<10, 10, 10, 7>>)
        /\ IsPrefix(limits, <<10, 10, 10, 10>>)
        /\ Len(limits) = Len(pages)
        /\ offset = yielded
        /\ yielded = Min(10 * Len(pages), 37)
        /\ pstate = "exhausted" <=> Len(pages) = 4

C13_Witness ==
    /\ Exhaustion37
    /\ pstate = "exhausted"
    /\ pages = <<10, 10, 10, 7>>
    /\ yielded = 37

\* a TOTAL resource with max_total_results=50 and no num_results over a
\* server that reports a total of 1000 and honours the limit
CapMidStream ==
    /\ method = "PaginatedResource"
    /\ paging_style = "TOTAL"
    /\ num_results = None
    /\ max_total_results = 50
    /\ server_total = 1000
    /\ server_kind = "exact"

\* C14: with max_total_results=50, TOTAL paging, a server total of 1000 and
\* no num_results, the sequence never yields a 51st item and never ends as
\* if exhausted: once 50 items are out, going on fails with
\* PaginationOverrunError.
C14_CapMidStream ==
    CapMidStream =>
        /\ yielded <= 50
        /\ pstate # "exhausted"
        /\ pstate = "error" => (perror = "PaginationOverrunError" /\ yielded = 50)
        /\ (pstate = "built" /\ yielded = 50) => ENABLED FetchPage
        /\ Len(limits) <= 5

C14_Witness ==
    /\ CapMidStream
    /\ pstate = "error"
    /\ perror = "PaginationOverrunError"
    /\ yielded = 50
    /\ Len(pages) = 5

\* C15: whatever the paging style and whatever the server returns, the
\* sequence of a list method called with num_results = n yields at most n
\* items.
C15_ResultCap ==
    (method \in ListMethods /\ wanted # None) => yielded <= wanted

C15_Witness ==
    /\ method = "task_list"
    /\ wanted = 10
    /\ server_kind = "ignores_limit"
    /\ pages = <<37>>
    /\ yielded = 10
    /\ pstate = "exhausted"

\* the items the first k responses held
RECURSIVE Received(_)
Received(k) == IF k = 0 THEN 0 ELSE Received(k - 1) + pages[k]

\* the page size ceiling each list method hands to its resource
MethodCeiling ==
    CASE method = "endpoint_search" -> 100
      [] method \in {"endpoint_manager_task_list", "task_list",
                     "task_event_list"} -> 1000
      [] OTHER -> max_results_per_call

\* C21: every page request of a paginated resource asks for
\* min(max_results_per_call, num_results minus the items already yielded)
\* (max_results_per_call when num_results is absent), so no request asks for
\* more than max_results_per_call (100 for endpoint_search, 1000 for the task
\* list methods) nor for more than the results still wanted, and no request
\* is issued once none is wanted any more.
C21_PageSizeClamp ==
    /\ \A i \in 1..Len(limits) :
          /\ limits[i] =
                IF num_results = None THEN max_results_per_call
                ELSE Min(max_results_per_call, num_results - Received(i - 1))
          /\ limits[i] <= MethodCeiling
          /\ limits[i] >= 1
    /\ (pstate = "built" /\ num_results # None) =>
          /\ yielded < num_results
          /\ yielded = Received(Len(pages))
    /\ (num_results # None /\ yielded >= num_results) => ~ENABLED FetchPage

\* endpoint_search(num_results=120) asked for 100 and then for the 20 left
C21_Witness ==
    /\ method = "endpoint_search"
    /\ num_results = 120
    /\ limits = <<100, 20>>
    /\ pages = <<100, 20>>
    /\ yielded = 120
    /\ pstate = "exhausted"

====
